---------------------------- MODULE Spec2Model ----------------------------
(***************************************************************************)
(* A model of web/data.py: the paginated word-count reads of DataStorage   *)
(* and NoOpDataStorage, the artifact path of image_url_path, the format    *)
(* dispatch of generate_word_cloud and BlobStorage.save.                   *)
(*                                                                         *)
(* Python values are represented as follows.  None is the empty tuple and  *)
(* a present optional value v is the one-element tuple <<v>>.  A string    *)
(* that the code takes apart (a base path, a format name) is a sequence of *)
(* one-character strings; a string the code only compares or passes on (a *)
(* word, a publication id, a bucket name) is a TLA+ string.                *)
(***************************************************************************)
EXTENDS Integers, Sequences, FiniteSets

VARIABLES
    ent,        \* the 'ent' sub-collection of one publication: a set of documents
    catalog,    \* the 'publications' collection: a set of documents [id, count]
    blobs,      \* the object store: the set of blobs [bucket, name, content]
    call,       \* the operation executed last, with its arguments
    result,     \* what that operation returned, or the exception it raised
    walk,       \* a client paging through ent with chained checkpoints
    saved       \* the latest save request made for each (publ, bucket)

vars == <<ent, catalog, blobs, call, result, walk, saved>>

---------------------------------------------------------------------------
(* Bounds of the model.                                                    *)

MaxDocs == 3        \* documents in the 'ent' sub-collection, single reads
MaxWalkDocs == 3    \* documents in the 'ent' sub-collection, paginated walks
MaxCount == 2       \* counts are 0 .. MaxCount
MaxN == 3           \* top_n is 0 .. MaxN
MaxPages == 4       \* pages one paginated walk may request
MaxMutations == 2   \* insertions and deletions during one paginated walk
MaxPathLen == 4     \* characters of a base path

---------------------------------------------------------------------------
(* Python values.                                                          *)

None == <<>>
Some(v) == <<v>>

\* Truthiness of an optional str: None and '' are falsy.
Truthy(ow) == ow # None /\ ow # Some("")

\* The words of the model, in the byte order the backend sorts strings by.
Words == {"", "apple", "banana"}
WordRank == [w \in Words |-> CASE w = "" -> 0 [] w = "apple" -> 1 [] w = "banana" -> 2]
Counts == 0 .. MaxCount

\* A WordCount(word, count) value of .models.
WordCount(w, c) == [word |-> w, count |-> c]

\* The first n elements of a sequence.
Take(s, n) == SubSeq(s, 1, IF n < Len(s) THEN n ELSE Len(s))

\* The elements of a sequence, as a set.
Range(s) == {s[i] : i \in 1 .. Len(s)}

---------------------------------------------------------------------------
(* The ordered-collection backend: order_by, limit, start_after, stream.   *)

\* x sorts strictly before y on one field, ascending.
FieldLess(f, x, y) ==
    IF f = "count" THEN x < y ELSE WordRank[x] < WordRank[y]

\* The value tuple a sorts strictly before b under the orders os, from
\* order i on.
RECURSIVE KeyBefore(_, _, _, _)
KeyBefore(os, a, b, i) ==
    IF i > Len(os) THEN FALSE
    ELSE LET f == os[i].field
             lt == IF os[i].direction = "DESCENDING"
                   THEN FieldLess(f, b[f], a[f]) ELSE FieldLess(f, a[f], b[f])
         IN  lt \/ (a[f] = b[f] /\ KeyBefore(os, a, b, i + 1))

\* Query.order_by(field, direction): appends one order.
order_by(q, f, dir) ==
    [q EXCEPT !.orders = Append(@, [field |-> f, direction |-> dir])]

\* Query.limit(n).
limit(q, n) == [q EXCEPT !.limit = Some(n)]

\* Query.start_at(fields): an inclusive cursor.
start_at(q, fields) == [q EXCEPT !.cursor = Some([at |-> fields, before |-> TRUE])]

\* Query.start_after(fields): an exclusive cursor on the ordered fields.
start_after(q, fields) == [q EXCEPT !.cursor = Some([at |-> fields, before |-> FALSE])]

\* collection(...).document(publ).collection('ent'): the unconstrained query.
collection(docs) == [docs |-> docs, orders |-> <<>>, limit |-> None, cursor |-> None]

\* The documents a query's cursor lets through.
AfterCursor(q) ==
    IF q.cursor = None THEN q.docs
    ELSE LET cur == q.cursor[1]
         IN  {d \in q.docs :
                 \/ KeyBefore(q.orders, cur.at, d, 1)
                 \/ cur.before /\ ~KeyBefore(q.orders, d, cur.at, 1)}

\* A set of documents as the sequence the orders put them in.
RECURSIVE InOrder(_, _)
InOrder(os, S) ==
    IF S = {} THEN <<>>
    ELSE LET m == CHOOSE x \in S : \A y \in S \ {x} : KeyBefore(os, x, y, 1)
         IN  <<m>> \o InOrder(os, S \ {m})

\* Query.stream(): the documents after the cursor, in order, up to the limit.
stream(q) ==
    LET all == InOrder(q.orders, AfterCursor(q))
    IN  IF q.limit = None THEN all ELSE Take(all, q.limit[1])

---------------------------------------------------------------------------
(* What an operation hands back.                                           *)

Return(v) == [raised |-> "none", value |-> v]
Raise(e) == [raised |-> e, value |-> None]
Idle == [op |-> "none"]

---------------------------------------------------------------------------
(* DataStorage.word_counts.                                                *)

\* The test with count's truthiness in place of 'count is not None'.
UsableCheckpointByTruthiness(word, count) ==
    Truthy(word) /\ count # None /\ count # Some(0)

\* 'word and count is not None': the checkpoint is used as a cursor.
UsableCheckpoint(word, count) ==
    Truthy(word) /\ count # None

\* The query word_counts builds for (top_n, checkpoint) over the documents.
word_counts_query(docs, top_n, checkpoint) ==
    LET cp0 == IF checkpoint = None THEN <<None, None>> ELSE checkpoint
        word == cp0[1]
        count == cp0[2]
        cp == IF UsableCheckpoint(word, count)
              THEN Some([word |-> word[1], count |-> count[1]])
              ELSE None
        q1 == order_by(collection(docs), "count", "DESCENDING")
        q2 == order_by(q1, "word", "ASCENDING")
        q3 == limit(q2, top_n)
    IN  IF cp # None THEN start_after(q3, cp[1]) ELSE q3

\* 'for doc in q.stream(): yield WordCount(doc.get('word'), doc.get('count'))'
yield_word_counts(q) ==
    LET rows == stream(q)
    IN  [i \in 1 .. Len(rows) |-> WordCount(rows[i].word, rows[i].count)]

\* The WordCounts word_counts yields for (top_n, checkpoint).
word_counts(docs, top_n, checkpoint) ==
    yield_word_counts(word_counts_query(docs, top_n, checkpoint))

---------------------------------------------------------------------------
(* NoOpDataStorage.word_counts.                                            *)

SyntheticRows == 10

\* f'ent{i}'
EntLabel(i) ==
    CASE i = 0 -> "ent0" [] i = 1 -> "ent1" [] i = 2 -> "ent2" [] i = 3 -> "ent3"
      [] i = 4 -> "ent4" [] i = 5 -> "ent5" [] i = 6 -> "ent6" [] i = 7 -> "ent7"
      [] i = 8 -> "ent8" [] i = 9 -> "ent9"

\* range(a, b) as a sequence.
range(a, b) == [i \in 1 .. (IF b > a THEN b - a ELSE 0) |-> a + i - 1]

\* The whole call: the rows it yields, or the exception it raises.
NoOp_word_counts(top_n, checkpoint) ==
    IF checkpoint = None \/ checkpoint = <<None, None>>
    THEN LET r == range(0, SyntheticRows)
         IN  Return([i \in 1 .. Len(r) |-> WordCount(EntLabel(r[i]), r[i])])
    ELSE IF checkpoint[2] = None
    THEN Raise("TypeError")          \* None + 1
    ELSE LET r == range(checkpoint[2][1] + 1, SyntheticRows)
         IN  Return([i \in 1 .. Len(r) |-> WordCount(EntLabel(r[i]), r[i])])

---------------------------------------------------------------------------
(* The inputs of the model.                                                *)

Docs == {WordCount(w, c) : w \in Words, c \in Counts}
Stores == {S \in SUBSET Docs : Cardinality(S) <= MaxDocs}
OptWords == {None} \cup {Some(w) : w \in Words}
OptCounts == {None} \cup {Some(c) : c \in Counts}
Checkpoints == {None} \cup {<<ow, oc>> : ow \in OptWords, oc \in OptCounts}
NoWalk == [status |-> "idle"]

---------------------------------------------------------------------------
(* Single reads of the store by a synchronous caller: it makes one call,  *)
(* takes what the call hands back, and only then makes the next.           *)

WordCounts(n, cp) ==
    LET q == word_counts_query(ent, n, cp)
    IN  /\ call = Idle
        /\ call' = [op |-> "DataStorage.word_counts", top_n |-> n,
                    checkpoint |-> cp, query |-> q]
        /\ result' = Return(yield_word_counts(q))
        /\ UNCHANGED <<ent, catalog, blobs, walk, saved>>

NoOpWordCounts(n, cp) ==
    /\ call = Idle
    /\ call' = [op |-> "NoOpDataStorage.word_counts", top_n |-> n,
                checkpoint |-> cp, query |-> None]
    /\ result' = NoOp_word_counts(n, cp)
    /\ UNCHANGED <<ent, catalog, blobs, walk, saved>>

\* The caller has consumed the result (or handled the exception).
TakeResult ==
    /\ call # Idle
    /\ call' = Idle
    /\ result' = Return(None)
    /\ UNCHANGED <<ent, catalog, blobs, walk, saved>>

Init ==
    /\ ent \in Stores
    /\ catalog = {}
    /\ blobs = {}
    /\ call = Idle
    /\ result = Return(None)
    /\ walk = NoWalk
    /\ saved = {}

Next ==
    \/ \E n \in 0 .. MaxN, cp \in Checkpoints : WordCounts(n, cp)
    \/ \E n \in 0 .. MaxN, cp \in Checkpoints : NoOpWordCounts(n, cp)
    \/ TakeResult

Spec == Init /\ [][Next]_vars

---------------------------------------------------------------------------
(* The order the claims speak of, stated on WordCounts directly.           *)

\* a comes strictly before b: count descending, then word ascending.
Precedes(a, b) ==
    \/ a.count > b.count
    \/ a.count = b.count /\ WordRank[a.word] < WordRank[b.word]

\* d comes strictly after the sort key (c, w).
StrictlyAfter(d, w, c) ==
    \/ d.count < c
    \/ d.count = c /\ WordRank[d.word] > WordRank[w]

\* All of S in (count descending, word ascending) order.
RECURSIVE FullSequence(_)
FullSequence(S) ==
    IF S = {} THEN <<>>
    ELSE LET m == CHOOSE x \in S : \A y \in S \ {x} : Precedes(x, y)
         IN  <<m>> \o FullSequence(S \ {m})

IsDataRead == call.op = "DataStorage.word_counts"
IsNoOpRead == call.op = "NoOpDataStorage.word_counts"

\* Both fields of the checkpoint given to the last read are populated.
BothPresent ==
    /\ call.checkpoint # None
    /\ Truthy(call.checkpoint[1])
    /\ call.checkpoint[2] # None

TreatedAsAbsent ==
    \/ call.checkpoint = None
    \/ call.checkpoint[1] = None
    \/ call.checkpoint[1] = Some("")
    \/ call.checkpoint[2] = None

ResultBound ==
    ((IsDataRead \/ IsNoOpRead) /\ result.raised = "none") =>
        Len(result.value) <= call.top_n

\* C10: the synthetic read never fails; it starts at count 0 unless both
\* fields of the checkpoint are present, and then at checkpoint.count + 1;
\* its counts are consecutive, increasing and below 10.
SyntheticResumption ==
    IsNoOpRead =>
        LET start == IF BothPresent THEN call.checkpoint[2][1] + 1 ELSE 0
            page == result.value
        IN  /\ result.raised = "none"
            /\ Len(page) = (IF start < 10 THEN 10 - start ELSE 0)
            /\ \A i \in 1 .. Len(page) : page[i].count = start + i - 1

---------------------------------------------------------------------------
(* A paginated walk, as the docstring of word_counts describes it: the     *)
(* first page is read without checkpoint, each further page with the       *)
(* (word, count) of the last record of the page before, until a page comes *)
(* back empty.  Other clients insert and delete records between the page   *)
(* requests.                                                               *)

WalkStores == {S \in SUBSET Docs : Cardinality(S) <= MaxWalkDocs}

\* The checkpoint a client takes from a page: its last record.
CheckpointOf(page) == <<Some(page[Len(page)].word), Some(page[Len(page)].count)>>

\* One page request of the walk, with page size k and checkpoint cp.
ReadPage(k, cp, w) ==
    LET q == word_counts_query(ent, k, cp)
        page == yield_word_counts(q)
    IN  /\ call' = [op |-> "DataStorage.word_counts", top_n |-> k,
                    checkpoint |-> cp, query |-> q]
        /\ result' = Return(page)
        /\ walk' = [w EXCEPT
                      !.status = IF page = <<>> THEN "done" ELSE "paging",
                      !.checkpoint = IF page = <<>> THEN cp ELSE CheckpointOf(page),
                      !.collected = @ \o page,
                      !.pages = @ + 1]

WalkStart(k) ==
    /\ walk.status = "idle"
    /\ ReadPage(k, None, [status |-> "idle", k |-> k, checkpoint |-> None,
                          collected |-> <<>>, pages |-> 0, stable |-> ent,
                          mutations |-> 0])
    /\ UNCHANGED <<ent, catalog, blobs, saved>>

WalkNext ==
    /\ walk.status = "paging"
    /\ walk.pages < MaxPages
    /\ ReadPage(walk.k, walk.checkpoint, walk)
    /\ UNCHANGED <<ent, catalog, blobs, saved>>

\* Another client adds a record to the sub-collection during the walk.
Insert(d) ==
    /\ walk.status = "paging"
    /\ walk.mutations < MaxMutations
    /\ d \notin ent
    /\ Cardinality(ent) < MaxWalkDocs
    /\ ent' = ent \cup {d}
    /\ walk' = [walk EXCEPT !.mutations = @ + 1]
    /\ call' = [op |-> "insert", doc |-> d]
    /\ result' = Return(None)
    /\ UNCHANGED <<catalog, blobs, saved>>

\* Another client removes a record from the sub-collection during the walk.
Delete(d) ==
    /\ walk.status = "paging"
    /\ walk.mutations < MaxMutations
    /\ d \in ent
    /\ ent' = ent \ {d}
    /\ walk' = [walk EXCEPT !.mutations = @ + 1, !.stable = @ \ {d}]
    /\ call' = [op |-> "delete", doc |-> d]
    /\ result' = Return(None)
    /\ UNCHANGED <<catalog, blobs, saved>>

InitWalk ==
    /\ ent \in WalkStores
    /\ catalog = {}
    /\ blobs = {}
    /\ call = Idle
    /\ result = Return(None)
    /\ walk = NoWalk
    /\ saved = {}

NextWalk ==
    \/ \E k \in 1 .. MaxN : WalkStart(k)
    \/ WalkNext
    \/ \E d \in Docs : Insert(d)
    \/ \E d \in Docs : Delete(d)

SpecWalk == InitWalk /\ [][NextWalk]_vars

\* No element occurs twice in the sequence.
NoDuplicates(s) == \A i, j \in 1 .. Len(s) : s[i] = s[j] => i = j

\* s is an initial part of t.
IsPrefix(s, t) == Len(s) <= Len(t) /\ s = SubSeq(t, 1, Len(s))

Walking == walk.status # "idle"

\* C1: over an unchanging store, the pages of a walk with a fixed page
\* size k >= 1, concatenated, are the full sequence of the records in
\* (count descending, word ascending) order: at every point an initial
\* part of it, with no record twice and none skipped, and all of it once
\* a page has come back empty.
PaginationComplete ==
    (Walking /\ walk.mutations = 0) =>
        /\ NoDuplicates(walk.collected)
        /\ IsPrefix(walk.collected, FullSequence(ent))
        /\ walk.status = "done" => walk.collected = FullSequence(ent)

\* C8: with records inserted and deleted between the page requests, each
\* resumed page is exactly the first min(n, available) records, in the
\* store's order at the time of the read, strictly after the checkpoint's
\* key; no record is returned twice, and a record present during the whole
\* walk has been returned once the walk has ended.
PaginationUnderMutation ==
    Walking =>
        /\ (IsDataRead /\ call.checkpoint # None) =>
               result.value =
                   Take(FullSequence({d \in ent :
                            StrictlyAfter(d, call.checkpoint[1][1],
                                          call.checkpoint[2][1])}),
                        call.top_n)
        /\ NoDuplicates(walk.collected)
        /\ walk.status = "done" => walk.stable \subseteq Range(walk.collected)

---------------------------------------------------------------------------
(* Strings the code takes apart, as sequences of characters.               *)

\* The index of the first c in s, or 0.
Find(s, c) ==
    IF \E i \in 1 .. Len(s) : s[i] = c
    THEN CHOOSE i \in 1 .. Len(s) : s[i] = c /\ \A j \in 1 .. i - 1 : s[j] # c
    ELSE 0

\* str.split(sep) for a one-character sep.
RECURSIVE split(_, _)
split(s, sep) ==
    LET i == Find(s, sep)
    IN  IF i = 0 THEN <<s>>
        ELSE <<SubSeq(s, 1, i - 1)>> \o split(SubSeq(s, i + 1, Len(s)), sep)

\* sep.join(parts)
RECURSIVE join(_, _)
join(sep, parts) ==
    IF parts = <<>> THEN <<>>
    ELSE IF Len(parts) = 1 THEN parts[1]
    ELSE parts[1] \o <<sep>> \o join(sep, Tail(parts))

\* [p for p in parts if p]
NonEmpty(seg) == seg # <<>>
Last(s) == s[Len(s)]
Front(s) == SubSeq(s, 1, Len(s) - 1)

---------------------------------------------------------------------------
(* urllib.parse.urljoin, for a base without scheme and a relative file     *)
(* name; the alphabet of the model has no ':', '#' or ';'.                 *)

\* urlsplit(base): a leading '//' opens the network location, which ends
\* at the next '/' or '?'; the first '?' opens the query.
urlsplit(url) ==
    LET hasNetloc == Len(url) >= 2 /\ url[1] = "/" /\ url[2] = "/"
        rest0 == IF hasNetloc THEN SubSeq(url, 3, Len(url)) ELSE url
        stops == {i \in 1 .. Len(rest0) : rest0[i] \in {"/", "?"}}
        delim == IF stops = {} THEN Len(rest0) + 1
                 ELSE CHOOSE i \in stops : \A j \in stops : i <= j
        netloc == IF hasNetloc THEN SubSeq(rest0, 1, delim - 1) ELSE <<>>
        rest == IF hasNetloc THEN SubSeq(rest0, delim, Len(rest0)) ELSE url
        q == Find(rest, "?")
    IN  [netloc |-> netloc,
         path |-> IF q = 0 THEN rest ELSE SubSeq(rest, 1, q - 1),
         query |-> IF q = 0 THEN <<>> ELSE SubSeq(rest, q + 1, Len(rest))]

\* The loop of urljoin that resolves '.' and '..' segments.
RECURSIVE resolve(_, _)
resolve(segments, resolved) ==
    IF segments = <<>> THEN resolved
    ELSE LET seg == Head(segments)
         IN  IF seg = <<".", ".">>
             THEN resolve(Tail(segments),
                          IF resolved = <<>> THEN resolved ELSE Front(resolved))
             ELSE IF seg = <<".">>
             THEN resolve(Tail(segments), resolved)
             ELSE resolve(Tail(segments), Append(resolved, seg))

\* urljoin(base, url) for a url that is a plain relative path.
urljoin(base, url) ==
    IF base = <<>> THEN url
    ELSE IF url = <<>> THEN base
    ELSE LET b == urlsplit(base)
             parts0 == split(b.path, "/")
             base_parts == IF Last(parts0) # <<>> THEN Front(parts0) ELSE parts0
             joined == base_parts \o split(url, "/")
             segments == <<Head(joined)>>
                         \o SelectSeq(SubSeq(joined, 2, Len(joined) - 1), NonEmpty)
                         \o <<Last(joined)>>
             resolved0 == resolve(segments, <<>>)
             resolved == IF Last(segments) \in {<<".">>, <<".", ".">>}
                         THEN Append(resolved0, <<>>) ELSE resolved0
             path == IF join("/", resolved) = <<>> THEN <<"/">> ELSE join("/", resolved)
         IN  IF b.netloc # <<>> THEN <<"/", "/">> \o b.netloc \o path ELSE path

---------------------------------------------------------------------------
(* image_url_path.                                                         *)

Pubs == {"vox", "pub0"}

\* hashlib.md5(pub_id.encode()).hexdigest(), for the publication ids of
\* the model.
Md5Hex(p) ==
    CASE
         p = "vox" -> <<"c", "d", "9", "a", "3", "4", "6", "b", "d", "6", "5", "2", "8", "1", "7", "6">> \o
            <<"c", "e", "d", "3", "d", "d", "b", "e", "1", "0", "5", "e", "c", "4", "d", "6">>
      [] p = "pub0" -> <<"f", "0", "4", "9", "5", "2", "2", "a", "7", "5", "b", "6", "3", "7", "e", "2">> \o
            <<"c", "e", "4", "4", "4", "5", "c", "d", "4", "4", "3", "e", "9", "6", "e", "9">>

DotPng == <<".", "p", "n", "g">>

\* The base path after lines 55-62: '/' for None and '', else the
\* non-empty segments between single slashes.
normalize_path(path) ==
    LET p0 == IF path = None \/ path = Some(<<>>) THEN <<"/">> ELSE path[1]
    IN  IF p0 # <<"/">>
        THEN <<"/">> \o join("/", SelectSeq(split(p0, "/"), NonEmpty)) \o <<"/">>
        ELSE p0

image_url_path(pub_id, path) ==
    urljoin(normalize_path(path), Md5Hex(pub_id) \o DotPng)

---------------------------------------------------------------------------
(* DataStorage.publications.                                               *)

\* Publication(id, count, image_url) of .models.
Publication(id, count, url) == [id |-> id, count |-> count, image_url |-> url]

\* The documents of the 'publications' collection in the order the backend
\* streams them.
RECURSIVE stream_publications(_)
stream_publications(docs) ==
    IF docs = {} THEN <<>>
    ELSE LET d == CHOOSE x \in docs : \A y \in docs : x.id = "vox" \/ y.id # "vox"
         IN  <<d>> \o stream_publications(docs \ {d})

publications(docs, bucket_name) ==
    LET ds == stream_publications(docs)
    IN  [i \in 1 .. Len(ds) |->
            Publication(ds[i].id, ds[i].count, image_url_path(ds[i].id, bucket_name))]

---------------------------------------------------------------------------
(* BlobStorage.save.                                                       *)

\* The names bound in the module's namespace: its imports, functions and
\* classes.
ModuleGlobals ==
    {"hashlib", "io", "urljoin", "Any", "Dict", "Generator", "Tuple",
     "firestore", "storage", "Blob", "Image", "WordCloud", "Publication",
     "WordCount", "get_client", "image_to_byte_array", "generate_word_cloud",
     "image_url_path", "DataStorage", "NoOpDataStorage", "BlobStorage",
     "NoOpBlobStorage"}

\* The blob name of a publication: its hashed name.
pub_to_url(publ) == Md5Hex(publ)

\* Blob(name, bucket).upload_from_string(ibytes, content_type): the blob of
\* that name in the bucket is replaced.
upload_from_string(store, bucket, name, ibytes, content_type) ==
    {b \in store : ~(b.bucket = bucket /\ b.name = name)}
        \cup {[bucket |-> bucket, name |-> name, content |-> ibytes,
               content_type |-> content_type]}

\* The whole call: the object store after it and what it hands back.  The
\* lookup of the global name pub_to_url comes first.
save(store, publ, bucket, ibytes) ==
    IF "pub_to_url" \notin ModuleGlobals
    THEN [blobs |-> store, result |-> Raise("NameError")]
    ELSE [blobs |-> upload_from_string(store, bucket, pub_to_url(publ) \o DotPng,
                                       ibytes, "image/png"),
          result |-> Return(None)]

---------------------------------------------------------------------------
(* The artifact side: paths, the catalog and the object store.             *)

PathChars == {"/", "a", ".", "?"}

\* All strings over PathChars of at most n characters.
RECURSIVE Strings(_)
Strings(n) ==
    IF n = 0 THEN {<<>>}
    ELSE LET S == Strings(n - 1) IN S \cup {Append(x, c) : x \in S, c \in PathChars}

Paths == {None} \cup {Some(x) : x \in Strings(MaxPathLen)}
Buckets == {"bucket-a", "bucket-b"}
Contents == {"png-1", "png-2"}
Catalogs == {{[id |-> p, count |-> f[p]] : p \in P} : P \in SUBSET Pubs, f \in [Pubs -> 0 .. 1]}

ImageUrlPath(pub_id, path) ==
    /\ call = Idle
    /\ call' = [op |-> "image_url_path", pub_id |-> pub_id, path |-> path]
    /\ result' = Return(image_url_path(pub_id, path))
    /\ UNCHANGED <<ent, catalog, blobs, walk, saved>>

Publications(bucket_name) ==
    /\ call = Idle
    /\ call' = [op |-> "DataStorage.publications", bucket_name |-> bucket_name]
    /\ result' = Return(publications(catalog, bucket_name))
    /\ UNCHANGED <<ent, catalog, blobs, walk, saved>>

Save(publ, bucket, ibytes) ==
    LET r == save(blobs, publ, bucket, ibytes)
    IN  /\ call = Idle
        /\ call' = [op |-> "BlobStorage.save", publ |-> publ, bucket |-> bucket,
                    ibytes |-> ibytes]
        /\ blobs' = r.blobs
        /\ result' = r.result
        /\ saved' = {x \in saved : ~(x.publ = publ /\ x.bucket = bucket)}
                        \cup {[publ |-> publ, bucket |-> bucket, ibytes |-> ibytes]}
        /\ UNCHANGED <<ent, catalog, walk>>

InitArtifact ==
    /\ ent = {}
    /\ catalog \in Catalogs
    /\ blobs = {}
    /\ call = Idle
    /\ result = Return(None)
    /\ walk = NoWalk
    /\ saved = {}

\* Artifact paths: image_url_path and the listing that uses it.
NextPath ==
    \/ \E p \in Pubs, path \in Paths : ImageUrlPath(p, path)
    \/ \E path \in Paths : Publications(path)
    \/ TakeResult

SpecPath == InitArtifact /\ [][NextPath]_vars

\* The object store under a sequence of saves.
NextBlob ==
    \/ \E p \in Pubs, b \in Buckets, c \in Contents : Save(p, b, c)
    \/ TakeResult

SpecBlob == InitArtifact /\ [][NextBlob]_vars

\* The non-empty '/'-separated segments of a base path; none for None.
Segments(path) ==
    IF path = None THEN <<>> ELSE SelectSeq(split(path[1], "/"), NonEmpty)

\* One leading '/', one '/' between segments, one trailing '/'; '/' for
\* the root.
CanonicalBase(path) ==
    IF Segments(path) = <<>> THEN <<"/">>
    ELSE <<"/">> \o join("/", Segments(path)) \o <<"/">>

\* C5: base paths with the same non-empty segments give the same artifact
\* path, and that path is the normalized base immediately followed by the
\* lowercase hex MD5 of the publication id and '.png'.
BasePathNormalization ==
    call.op = "image_url_path" =>
        /\ \A other \in Paths :
               Segments(other) = Segments(call.path) =>
                   image_url_path(call.pub_id, other) = result.value
        /\ result.value = CanonicalBase(call.path) \o Md5Hex(call.pub_id) \o DotPng

\* s ends with t.
EndsWith(s, t) ==
    Len(t) <= Len(s) /\ SubSeq(s, Len(s) - Len(t) + 1, Len(s)) = t

\* C6: save(p, bucket, bytes) completes and leaves the bytes in the bucket
\* under the name <hex MD5 of p>.png, the file name every artifact path of
\* p ends with.
ArtifactPathAgreement ==
    call.op = "BlobStorage.save" =>
        /\ result.raised = "none"
        /\ \E b \in blobs :
               /\ b.bucket = call.bucket
               /\ b.name = Md5Hex(call.publ) \o DotPng
               /\ b.content = call.ibytes
               /\ \A path \in {None, Some(<<"a">>), Some(<<"/", "a", "/", "a">>)} :
                      EndsWith(image_url_path(call.publ, path), b.name)

\* C9: after any saves, each (publication id, bucket) saved to holds
\* exactly one blob, with the bytes of the most recent save for it, and
\* the object store holds nothing else.
OverwriteOnSave ==
    /\ \A x \in saved :
           LET held == {b \in blobs : b.bucket = x.bucket
                                      /\ b.name = Md5Hex(x.publ) \o DotPng}
           IN  /\ Cardinality(held) = 1
               /\ \A b \in held : b.content = x.ibytes
    /\ Cardinality(blobs) = Cardinality(saved)

---------------------------------------------------------------------------
(* generate_word_cloud.                                                    *)

DefaultSize == 500

\* str.lower() on one character.
LowerChar(c) ==
    CASE
         c = "A" -> "a"
      [] c = "B" -> "b"
      [] c = "C" -> "c"
      [] c = "D" -> "d"
      [] c = "E" -> "e"
      [] c = "F" -> "f"
      [] c = "G" -> "g"
      [] c = "H" -> "h"
      [] c = "I" -> "i"
      [] c = "J" -> "j"
      [] c = "K" -> "k"
      [] c = "L" -> "l"
      [] c = "M" -> "m"
      [] c = "N" -> "n"
      [] c = "O" -> "o"
      [] c = "P" -> "p"
      [] c = "Q" -> "q"
      [] c = "R" -> "r"
      [] c = "S" -> "s"
      [] c = "T" -> "t"
      [] c = "U" -> "u"
      [] c = "V" -> "v"
      [] c = "W" -> "w"
      [] c = "X" -> "x"
      [] c = "Y" -> "y"
      [] c = "Z" -> "z"
      [] OTHER -> c

\* The format name left as it was given.
verbatim(str) == str

\* str.lower()
lower(str) == [i \in 1 .. Len(str) |-> LowerChar(str[i])]

\* WordCloud(height, width).fit_words(freqs): the layout object.
fit_words(freqs, height, width) ==
    [type |-> "WordCloud", height |-> height, width |-> width, words |-> freqs]

\* WordCloud.to_image(): an image of the layout's width and height.
to_image(wc) == [type |-> "Image", size |-> <<wc.width, wc.height>>, of |-> wc.words]

\* image_to_byte_array(image, fmt): the image encoded, 'png' by default.
image_to_byte_array(image, fmt) == [type |-> "bytes", format |-> fmt, image |-> image]

\* The whole call: what it returns, or the exception it raises.
generate_word_cloud(freqs, fmt0, height, width) ==
    LET wc == fit_words(freqs, height, width)
        fmt == lower(fmt0)
    IN  IF fmt = <<"r", "a", "w">> THEN Return(wc)
        ELSE IF fmt = <<"i", "m", "a", "g", "e">> THEN Return(to_image(wc))
        ELSE IF fmt = <<"b", "y", "t", "e", "s">>
        THEN Return(image_to_byte_array(to_image(wc), "png"))
        ELSE Raise("ValueError: unsupported fmt value.")

\* Format names given by callers, recognized and not.
Formats ==
    {<<"r", "a", "w">>,
     <<"R", "A", "W">>,
     <<"R", "a", "w">>,
     <<"i", "m", "a", "g", "e">>,
     <<"I", "m", "a", "g", "e">>,
     <<"I", "M", "A", "G", "E">>,
     <<"b", "y", "t", "e", "s">>,
     <<"B", "Y", "T", "E", "S">>,
     <<"B", "y", "t", "e", "s">>,
     <<"x", "m", "l">>,
     <<"X", "M", "L">>,
     <<"p", "n", "g">>,
     <<"r", "a", "w", "r">>,
     <<>>}

\* Frequency mappings the renderer lays out: at least one word.
Frequencies ==
    {f \in UNION {[W -> 1 .. 2] : W \in SUBSET {"apple", "banana"}} : DOMAIN f # {}}

Sizes == {DefaultSize, 100}

GenerateWordCloud(freqs, fmt, height, width) ==
    /\ call = Idle
    /\ call' = [op |-> "generate_word_cloud", freqs |-> freqs, fmt |-> fmt,
                height |-> height, width |-> width]
    /\ result' = generate_word_cloud(freqs, fmt, height, width)
    /\ UNCHANGED <<ent, catalog, blobs, walk, saved>>

NextRender ==
    \/ \E f \in Frequencies, fmt \in Formats, h \in Sizes, w \in Sizes :
           GenerateWordCloud(f, fmt, h, w)
    \/ TakeResult

InitRender ==
    /\ ent = {}
    /\ catalog = {}
    /\ blobs = {}
    /\ call = Idle
    /\ result = Return(None)
    /\ walk = NoWalk
    /\ saved = {}

SpecRender == InitRender /\ [][NextRender]_vars

\* The spellings of the three recognized format names among Formats.
SpelledRaw == {<<"r", "a", "w">>, <<"R", "A", "W">>, <<"R", "a", "w">>}
SpelledImage ==
    {<<"i", "m", "a", "g", "e">>, <<"I", "m", "a", "g", "e">>,
     <<"I", "M", "A", "G", "E">>}
SpelledBytes ==
    {<<"b", "y", "t", "e", "s">>, <<"B", "Y", "T", "E", "S">>,
     <<"B", "y", "t", "e", "s">>}

\* C7: generate_word_cloud fails with the unsupported-format error exactly
\* when fmt, ignoring case, is none of raw, image and bytes; otherwise it
\* returns the layout object, the decoded image of the requested size, or
\* the PNG bytes of that image.
UnsupportedFormat ==
    call.op = "generate_word_cloud" =>
        /\ result.raised = "ValueError: unsupported fmt value."
               <=> call.fmt \notin SpelledRaw \cup SpelledImage \cup SpelledBytes
        /\ result.raised \in {"none", "ValueError: unsupported fmt value."}
        /\ call.fmt \in SpelledRaw => result.value.type = "WordCloud"
        /\ call.fmt \in SpelledImage =>
               /\ result.value.type = "Image"
               /\ result.value.size = <<call.width, call.height>>
        /\ call.fmt \in SpelledBytes =>
               /\ result.value.type = "bytes"
               /\ result.value.format = "png"
               /\ result.value.image.size = <<call.width, call.height>>

\* A call with an upper-case spelling of a recognized format that returned
\* the PNG bytes.
UpperCaseFormatWitness ==
    /\ call.op = "generate_word_cloud"
    /\ call.fmt = <<"B", "Y", "T", "E", "S">>
    /\ result.raised = "none"
    /\ result.value.type = "bytes"

=============================================================================
